---- MODULE Spec2Model ----
(***************************************************************************)
(* Model of wifi-reconnctor.py: one run of main() from the parsed command  *)
(* line through the scan, the selection find_better_wifi and the           *)
(* activation (Spec), and the periodic and manual runs of the script that  *)
(* share a lock file (SpecLock).  Qualities and thresholds are fractions   *)
(* in the program; here they are counted in hundredths (0.5 is 50), which  *)
(* is exact for every comparison the program makes.                        *)
(***************************************************************************)
EXTENDS Integers, Sequences, FiniteSets, TLC

(***************************************************************************)
(* Bounds of the model.                                                    *)
(***************************************************************************)
MaxListLen == 2
NumLevels == 3
\* Processes of the script that may be running at the same time.
NumRuns == 2

\* The network names in reach or configured.
Wlans == {"secA", "secB", "guest1"}

QualityTable == <<50, 30, 60, 90>>
Levels == {QualityTable[i] : i \in 1..NumLevels}

\* Python's None, where the program handles a name or nothing.
None == "<None>"

\* Values given on the command line (an option is <<>> when it is not given).
ThresholdOptions == {<<>>, <<80>>, <<5>>}
DeltaOptions == {<<>>, <<5>>, <<0>>}

Range(s) == {s[i] : i \in 1..Len(s)}

WlanLists ==
    {s \in UNION {[1..n -> Wlans] : n \in 0..MaxListLen} :
        \A i, j \in 1..Len(s) : i # j => s[i] # s[j]}

\* match_iwlist_v30_output: a dictionary keyed on the ESSID; only 'quality'
\* is read by the selection.
ScanDicts == UNION {[S -> Levels] : S \in SUBSET Wlans}

(***************************************************************************)
(* Module-level flags of the program.                                      *)
(***************************************************************************)
DefaultDeltaThreshold == 15
signal_quality_lower_bound == 50
DefaultQualityThreshold == 50

VARIABLES
    pc,                               \* position in main()
    dry_run,
    preferred_wlans,
    non_preferred_wlans,
    signal_quality_delta_threshold,
    signal_quality_threshold,
    scanned_wifi,                     \* [none : BOOLEAN, cells : dictionary]
    active_wifi,
    better_wifi,                      \* outcome of find_better_wifi
    activated,                        \* argument of activate_wifi, or None
    runs,                             \* the processes of SpecLock
    lock_files,                       \* paths that exist as files
    suspended                         \* history: runs the lock holds back

lockVars == <<runs, lock_files, suspended>>

vars == <<pc, dry_run, preferred_wlans, non_preferred_wlans,
          signal_quality_delta_threshold, signal_quality_threshold,
          scanned_wifi, active_wifi, better_wifi, activated, lockVars>>

(***************************************************************************)
(* find_better_wifi                                                        *)
(***************************************************************************)
Returned(w) == [kind |-> "return", value |-> w]
Raised(e) == [kind |-> e, value |-> None]
NotCalled == [kind |-> "not_called", value |-> None]

\* scanned_wifi_set == None or len(scanned_wifi_set) == 0
ScanIsEmptyLenOffByOne(scanned_wifi_set) ==
    scanned_wifi_set.none \/ Cardinality(DOMAIN scanned_wifi_set.cells) <= 1

ScanIsEmptyNoneOnly(scanned_wifi_set) ==
    scanned_wifi_set.none

ScanIsEmpty(scanned_wifi_set) ==
    scanned_wifi_set.none \/ Cardinality(DOMAIN scanned_wifi_set.cells) = 0

\* `sufficiently_better < upgrade_wifi_quality - fudge' has a str on the left
\* and a float on the right.  CPython 2 orders values of different types by
\* the default comparison, in which a number is smaller than any value that
\* is not a number: the test is false for every name and every quality.
StrLessThanFloat(name, number) == FALSE

\* The comparison the header describes, without the margin.
SwitchTestIgnoringFudge(sufficiently_better, better_quality, upgrade_wifi_quality, fudge) ==
    better_quality < upgrade_wifi_quality

\* The comparison on qualities with the margin on the wrong side.
SwitchTestFudgeAdded(sufficiently_better, better_quality, upgrade_wifi_quality, fudge) ==
    better_quality < upgrade_wifi_quality + fudge

\* The comparison on qualities.
SwitchTestOnQuality(sufficiently_better, better_quality, upgrade_wifi_quality, fudge) ==
    better_quality < upgrade_wifi_quality - fudge

\* The test of lines 474 and 493, over the locals that are live there.
SwitchTest(sufficiently_better, better_quality, upgrade_wifi_quality, fudge) ==
    StrLessThanFloat(sufficiently_better, upgrade_wifi_quality - fudge)

\* One iteration of `for wifi in preferred_wlans'.  st holds the locals
\* sufficiently_better, better_quality and fudge (<<>> while unassigned),
\* and the exception raised so far ("" for none).
PreferredIteration(st, wifi, active_wifi_, cells, active_is_preferred, allow_downgrade, delta) ==
    IF st.raised # "" THEN st
    ELSE IF wifi \notin DOMAIN cells THEN st
    ELSE IF cells[wifi] < signal_quality_lower_bound THEN st
    ELSE IF ~active_is_preferred
         THEN [st EXCEPT !.sufficiently_better = wifi,
                         !.better_quality = cells[wifi]]
    ELSE LET fudge == IF st.sufficiently_better = active_wifi_
                      THEN (IF ~allow_downgrade THEN <<delta>> ELSE st.fudge)
                      ELSE <<0>>
         IN IF fudge = <<>>
            THEN [st EXCEPT !.raised = "UnboundLocalError"]
            ELSE IF SwitchTest(st.sufficiently_better, st.better_quality,
                               cells[wifi], fudge[1])
                 THEN [st EXCEPT !.sufficiently_better = wifi,
                                 !.better_quality = cells[wifi],
                                 !.fudge = fudge]
                 ELSE [st EXCEPT !.fudge = fudge]

\* One iteration of `for wifi in non_preferred_wlans'.
NonPreferredIteration(st, wifi, active_wifi_, cells, delta) ==
    IF st.raised # "" THEN st
    ELSE IF wifi \notin DOMAIN cells
         THEN [st EXCEPT !.raised = "KeyError"]
    ELSE IF cells[wifi] < signal_quality_lower_bound THEN st
    ELSE LET fudge == IF st.sufficiently_better = active_wifi_
                      THEN <<delta>> ELSE <<0>>
         IN IF SwitchTest(st.sufficiently_better, st.better_quality,
                          cells[wifi], fudge[1])
            THEN [st EXCEPT !.sufficiently_better = wifi,
                            !.better_quality = cells[wifi],
                            !.fudge = fudge]
            ELSE [st EXCEPT !.fudge = fudge]

RECURSIVE PreferredLoop(_, _, _, _, _, _, _, _)
PreferredLoop(st, i, wlans, active_wifi_, cells, active_is_preferred, allow_downgrade, delta) ==
    IF i > Len(wlans) THEN st
    ELSE PreferredLoop(
             PreferredIteration(st, wlans[i], active_wifi_, cells,
                                active_is_preferred, allow_downgrade, delta),
             i + 1, wlans, active_wifi_, cells, active_is_preferred,
             allow_downgrade, delta)

RECURSIVE NonPreferredLoop(_, _, _, _, _, _)
NonPreferredLoop(st, i, wlans, active_wifi_, cells, delta) ==
    IF i > Len(wlans) THEN st
    ELSE NonPreferredLoop(
             NonPreferredIteration(st, wlans[i], active_wifi_, cells, delta),
             i + 1, wlans, active_wifi_, cells, delta)

\* The body of find_better_wifi once the guards have passed.
SelectFrom(active_wifi_, cells, preferred, non_preferred, delta, active_is_preferred) ==
    LET allow_downgrade == cells[active_wifi_] < signal_quality_lower_bound
        start == [sufficiently_better |-> active_wifi_,
                  better_quality |-> cells[active_wifi_],
                  fudge |-> <<>>,
                  raised |-> ""]
        sufficiently_better_is_preferred == active_is_preferred
        first == PreferredLoop(start, 1, preferred, active_wifi_, cells,
                               active_is_preferred, allow_downgrade, delta)
        second == NonPreferredLoop(first, 1, non_preferred, active_wifi_,
                                   cells, delta)
    IN IF first.raised # "" THEN Raised(first.raised)
       ELSE IF sufficiently_better_is_preferred
               /\ first.better_quality > signal_quality_lower_bound
            THEN Returned(first.sufficiently_better)
       ELSE IF second.raised # "" THEN Raised(second.raised)
       ELSE Returned(second.sufficiently_better)

FindBetterWifi(active_wifi_, scanned_wifi_set, preferred, non_preferred, delta) ==
    LET active_is_preferred == active_wifi_ \in Range(preferred)
    IN IF ScanIsEmpty(scanned_wifi_set) THEN Returned(active_wifi_)
       ELSE IF scanned_wifi_set.none
            \* `active_wifi in None', reached only if the guard above lets
            \* None through
            THEN Raised("TypeError")
       ELSE IF active_wifi_ \in Range(non_preferred) /\ active_is_preferred
            THEN Raised("SystemExit")
       ELSE IF active_wifi_ = None \/ active_wifi_ = ""
            THEN Raised("SystemExit")
       ELSE IF active_wifi_ \notin DOMAIN scanned_wifi_set.cells
            \* bail_with_message is called with two arguments
            THEN Raised("TypeError")
       ELSE SelectFrom(active_wifi_, scanned_wifi_set.cells, preferred,
                       non_preferred, delta, active_is_preferred)

\* The call of main(), line 569.
Decision ==
    FindBetterWifi(active_wifi, scanned_wifi, preferred_wlans,
                   non_preferred_wlans, signal_quality_delta_threshold)

(***************************************************************************)
(* main                                                                    *)
(***************************************************************************)
Runs == 1..NumRuns

\* A process slot in which no run of the script is under way.
IdleRun ==
    [pc |-> "idle", lock |-> FALSE, unlock |-> FALSE, lockfile |-> None,
     dry_run |-> FALSE, scanned_wifi |-> [none |-> TRUE, cells |-> <<>>],
     active_wifi |-> None, better_wifi |-> NotCalled]

Init ==
    /\ runs = [r \in Runs |-> IdleRun]
    /\ lock_files = {}
    /\ suspended = [r \in Runs |-> FALSE]
    /\ pc = "parse"
    /\ dry_run = FALSE
    /\ preferred_wlans = <<>>
    /\ non_preferred_wlans = <<>>
    /\ signal_quality_delta_threshold = DefaultDeltaThreshold
    /\ signal_quality_threshold = DefaultQualityThreshold
    /\ scanned_wifi = [none |-> TRUE, cells |-> <<>>]
    /\ active_wifi = None
    /\ better_wifi = NotCalled
    /\ activated = None

OptionValue(opt, default) == IF opt = <<>> THEN default ELSE opt[1]

DeltaInRange(d) == ~(d < 1 \/ d > 100)
ThresholdInRange(t) == ~(t < 10 \/ t > 100)

\* parse_commandline_args with a command line every option of which is
\* accepted.  The command lines drawn here carry no --lock, --unlock or
\* --lockfile: process_prescan_commands then finds lockfile None, is_locked
\* answers False and main() goes on to the scan.
ParseCommandlineArgs ==
    /\ pc = "parse"
    /\ \E p \in WlanLists, n \in WlanLists, t \in ThresholdOptions,
          d \in DeltaOptions, dry \in BOOLEAN :
          /\ DeltaInRange(OptionValue(d, DefaultDeltaThreshold))
          /\ ThresholdInRange(OptionValue(t, DefaultQualityThreshold))
          /\ preferred_wlans' = p
          /\ non_preferred_wlans' = n
          /\ signal_quality_threshold' = OptionValue(t, DefaultQualityThreshold)
          /\ signal_quality_delta_threshold' =
                 OptionValue(d, DefaultDeltaThreshold)
          /\ dry_run' = dry
    /\ pc' = "scan"
    /\ UNCHANGED lockVars
    /\ UNCHANGED <<scanned_wifi, active_wifi, better_wifi, activated>>

\* parse_commandline_args bailing on a threshold outside its range; the
\* options before it on the command line are not modelled as set.
ParseCommandlineArgsBail ==
    /\ pc = "parse"
    /\ \E t \in ThresholdOptions, d \in DeltaOptions :
          /\ ~DeltaInRange(OptionValue(d, DefaultDeltaThreshold))
             \/ ~ThresholdInRange(OptionValue(t, DefaultQualityThreshold))
          /\ signal_quality_threshold' = OptionValue(t, DefaultQualityThreshold)
          /\ signal_quality_delta_threshold' =
                 OptionValue(d, DefaultDeltaThreshold)
    /\ pc' = "aborted"
    /\ UNCHANGED lockVars
    /\ UNCHANGED <<dry_run, preferred_wlans, non_preferred_wlans, scanned_wifi,
                   active_wifi, better_wifi, activated>>

\* scan_wifi(preferred_wlans): the loop returns in its first iteration, and
\* falls off the end (None) when the list is empty.
ScanWifi ==
    /\ pc = "scan"
    /\ IF Len(preferred_wlans) = 0
       THEN scanned_wifi' = [none |-> TRUE, cells |-> <<>>]
       ELSE \E cells \in ScanDicts :
                scanned_wifi' = [none |-> FALSE, cells |-> cells]
    /\ pc' = "get_active"
    /\ UNCHANGED lockVars
    /\ UNCHANGED <<dry_run, preferred_wlans, non_preferred_wlans,
                   signal_quality_delta_threshold, signal_quality_threshold,
                   active_wifi, better_wifi, activated>>

\* get_active_wlan: the ESSID iwconfig reports, or None.
GetActiveWlan ==
    /\ pc = "get_active"
    /\ \E w \in Wlans \cup {None} : active_wifi' = w
    /\ pc' = "find"
    /\ UNCHANGED lockVars
    /\ UNCHANGED <<dry_run, preferred_wlans, non_preferred_wlans,
                   signal_quality_delta_threshold, signal_quality_threshold,
                   scanned_wifi, better_wifi, activated>>

\* find_better_wifi raises: main() is left by the exception.
MainAbort ==
    /\ pc = "find"
    /\ Decision.kind # "return"
    /\ better_wifi' = Decision
    /\ pc' = "aborted"
    /\ UNCHANGED lockVars
    /\ UNCHANGED <<dry_run, preferred_wlans, non_preferred_wlans,
                   signal_quality_delta_threshold, signal_quality_threshold,
                   scanned_wifi, active_wifi, activated>>

\* not (better_wifi == active_wifi) and not dry_run
MainSwitch ==
    /\ pc = "find"
    /\ Decision.kind = "return"
    /\ Decision.value # active_wifi
    /\ ~dry_run
    /\ better_wifi' = Decision
    /\ activated' = Decision.value
    /\ pc' = "done"
    /\ UNCHANGED lockVars
    /\ UNCHANGED <<dry_run, preferred_wlans, non_preferred_wlans,
                   signal_quality_delta_threshold, signal_quality_threshold,
                   scanned_wifi, active_wifi>>

\* not (better_wifi == active_wifi) and dry_run
MainDryRun ==
    /\ pc = "find"
    /\ Decision.kind = "return"
    /\ Decision.value # active_wifi
    /\ dry_run
    /\ better_wifi' = Decision
    /\ pc' = "done"
    /\ UNCHANGED lockVars
    /\ UNCHANGED <<dry_run, preferred_wlans, non_preferred_wlans,
                   signal_quality_delta_threshold, signal_quality_threshold,
                   scanned_wifi, active_wifi, activated>>

\* better_wifi == active_wifi
MainStay ==
    /\ pc = "find"
    /\ Decision.kind = "return"
    /\ Decision.value = active_wifi
    /\ better_wifi' = Decision
    /\ pc' = "done"
    /\ UNCHANGED lockVars
    /\ UNCHANGED <<dry_run, preferred_wlans, non_preferred_wlans,
                   signal_quality_delta_threshold, signal_quality_threshold,
                   scanned_wifi, active_wifi, activated>>

Next ==
    \/ ParseCommandlineArgs
    \/ ParseCommandlineArgsBail
    \/ ScanWifi
    \/ GetActiveWlan
    \/ MainAbort
    \/ MainSwitch
    \/ MainDryRun
    \/ MainStay

Spec == Init /\ [][Next]_vars

(***************************************************************************)
(* Runs of the script that share a lock file.  Every run is a process of   *)
(* its own; a slot of `runs' holds one process from its start to its exit  *)
(* and is then free for the next invocation.  All invocations carry the    *)
(* same --preferred and --not_preferred; they differ in --lock, --unlock,  *)
(* --lockfile and --dry_run.                                               *)
(***************************************************************************)
mainVars == <<pc, dry_run, preferred_wlans, non_preferred_wlans, signal_quality_delta_threshold, signal_quality_threshold, scanned_wifi, active_wifi, better_wifi, activated>>

\* The lock file of the header's example; an absolute path.
LockPath == "/tmp/wifi-reconnect.lock"
LockfileOptions == {None, LockPath}

\* What iwlist and iwconfig report to the runs of SpecLock.
LockScanDicts == {("secA" :> 60) @@ ("guest1" :> 60)}
LockActives == {"secA", "guest1"}

\* get_path_full_or_relative_to_home: None stays None and a path that
\* starts with '/' is returned as it is; the lock files drawn are absolute.
GetPathFullOrRelativeToHome(filename) == filename

IsLockedIgnoringFile(filename, files) == FALSE

\* is_locked
IsLocked(filename, files) ==
    IF filename = None THEN FALSE ELSE filename \in files

InitLock ==
    /\ runs = [r \in Runs |-> IdleRun]
    /\ lock_files = {}
    /\ suspended = [r \in Runs |-> FALSE]
    /\ pc = "parse"
    /\ dry_run = FALSE
    /\ preferred_wlans = <<"secA">>
    /\ non_preferred_wlans = <<"guest1">>
    /\ signal_quality_delta_threshold = DefaultDeltaThreshold
    /\ signal_quality_threshold = DefaultQualityThreshold
    /\ scanned_wifi = [none |-> TRUE, cells |-> <<>>]
    /\ active_wifi = None
    /\ better_wifi = NotCalled
    /\ activated = None

\* The two bail_with_message guards at the head of process_prescan_commands.
PrescanRejects(run) ==
    \/ run.lock /\ run.unlock
    \/ (run.lock \/ run.unlock) /\ run.lockfile = None

\* A process starts and parse_commandline_args sets its flags.  A run is
\* held back from its start when it names the lock file without --unlock
\* and the lock exists.
RunStart(r) ==
    /\ runs[r].pc = "idle"
    /\ \E l \in BOOLEAN, u \in BOOLEAN, dry \in BOOLEAN, f \in LockfileOptions :
          /\ runs' = [runs EXCEPT ![r] = [IdleRun EXCEPT !.pc = "prescan", !.lock = l, !.unlock = u, !.dry_run = dry, !.lockfile = f]]
          /\ suspended' = [suspended EXCEPT ![r] = (f = LockPath /\ ~u /\ LockPath \in lock_files)]
    /\ UNCHANGED lock_files
    /\ UNCHANGED mainVars

\* process_prescan_commands bails on its command line.
RunPrescanBail(r) ==
    /\ runs[r].pc = "prescan"
    /\ PrescanRejects(runs[r])
    /\ runs' = [runs EXCEPT ![r].pc = "aborted"]
    /\ UNCHANGED <<lock_files, suspended>>
    /\ UNCHANGED mainVars

\* process_prescan_commands up to the call of is_locked: do_lock creates
\* the file, do_unlock removes it, and a dry run only prints.
RunPrescanCommands(r) ==
    /\ runs[r].pc = "prescan"
    /\ ~PrescanRejects(runs[r])
    /\ LET fullpath == GetPathFullOrRelativeToHome(runs[r].lockfile)
       IN IF runs[r].lock /\ ~runs[r].dry_run
          THEN /\ lock_files' = lock_files \cup {fullpath}
               /\ suspended' = [suspended EXCEPT ![r] = TRUE]
          ELSE IF runs[r].unlock /\ ~runs[r].dry_run
          THEN /\ lock_files' = lock_files \ {fullpath}
               /\ suspended' = IF fullpath \in lock_files
                                THEN [q \in Runs |-> FALSE]
                                ELSE suspended
          ELSE UNCHANGED <<lock_files, suspended>>
    /\ runs' = [runs EXCEPT ![r].pc = "is_locked"]
    /\ UNCHANGED mainVars

\* do_lock cannot open the file: IOError, bail_with_message.
RunDoLockFails(r) ==
    /\ runs[r].pc = "prescan"
    /\ ~PrescanRejects(runs[r])
    /\ runs[r].lock /\ ~runs[r].dry_run
    /\ runs' = [runs EXCEPT ![r].pc = "aborted"]
    /\ UNCHANGED <<lock_files, suspended>>
    /\ UNCHANGED mainVars

\* The end of process_prescan_commands and line 564 of main(): a locked
\* run returns at once.
RunIsLocked(r) ==
    /\ runs[r].pc = "is_locked"
    /\ runs' = [runs EXCEPT ![r].pc =
                   IF IsLocked(GetPathFullOrRelativeToHome(runs[r].lockfile), lock_files)
                   THEN "locked_out" ELSE "scan"]
    /\ UNCHANGED <<lock_files, suspended>>
    /\ UNCHANGED mainVars

\* Lines 567-568 of main(): scan_wifi(preferred_wlans), then
\* get_active_wlan.  Neither reads or writes the lock file.
RunScanAndGetActive(r) ==
    /\ runs[r].pc = "scan"
    /\ \E cells \in LockScanDicts, w \in LockActives :
          runs' = [runs EXCEPT ![r].pc = "find",
                               ![r].scanned_wifi = IF Len(preferred_wlans) = 0 THEN [none |-> TRUE, cells |-> <<>>] ELSE [none |-> FALSE, cells |-> cells],
                               ![r].active_wifi = w]
    /\ UNCHANGED <<lock_files, suspended>>
    /\ UNCHANGED mainVars

\* Lines 569-578 of main(): find_better_wifi, then activate_wifi when the
\* decision is another network and the run is not a dry run.
RunDecide(r) ==
    /\ runs[r].pc = "find"
    /\ LET decision == FindBetterWifi(runs[r].active_wifi, runs[r].scanned_wifi, preferred_wlans, non_preferred_wlans, signal_quality_delta_threshold)
       IN runs' = [runs EXCEPT ![r].better_wifi = decision,
                               ![r].pc = IF decision.kind # "return" THEN "aborted"
                                         ELSE IF decision.value # runs[r].active_wifi /\ ~runs[r].dry_run
                                         THEN "activated"
                                         ELSE "finished"]
    /\ UNCHANGED <<lock_files, suspended>>
    /\ UNCHANGED mainVars

\* The process exits.
RunExit(r) ==
    /\ runs[r].pc \in {"aborted", "locked_out", "activated", "finished"}
    /\ runs' = [runs EXCEPT ![r] = IdleRun]
    /\ suspended' = [suspended EXCEPT ![r] = FALSE]
    /\ UNCHANGED lock_files
    /\ UNCHANGED mainVars

NextLock ==
    \/ \E r \in Runs : RunStart(r)
    \/ \E r \in Runs : RunPrescanBail(r)
    \/ \E r \in Runs : RunPrescanCommands(r)
    \/ \E r \in Runs : RunDoLockFails(r)
    \/ \E r \in Runs : RunIsLocked(r)
    \/ \E r \in Runs : RunScanAndGetActive(r)
    \/ \E r \in Runs : RunDecide(r)
    \/ \E r \in Runs : RunExit(r)

SpecLock == InitLock /\ [][NextLock]_vars

(***************************************************************************)
(* Vocabulary of the properties.                                           *)
(***************************************************************************)
Called == better_wifi.kind # "not_called"
Cells == scanned_wifi.cells
ScanNonEmpty == ~scanned_wifi.none /\ DOMAIN Cells # {}
Preferred == Range(preferred_wlans)
NonPreferred == Range(non_preferred_wlans)
ActiveScanned == ScanNonEmpty /\ active_wifi \in DOMAIN Cells

\* Present in the scan with a quality at or above the floor the selection
\* compares against.
InRange(w) == w \in DOMAIN Cells /\ Cells[w] >= signal_quality_lower_bound

\* The preference tier of a name, decided as line 438 decides it for the
\* active network: membership of the preferred list first.  With disjoint
\* lists this is plain membership.
Tier(w) ==
    IF w \in Preferred THEN "preferred"
    ELSE IF w \in NonPreferred THEN "non_preferred"
    ELSE "unlisted"

\* Every name of the non-preferred list was seen by the scan.
NonPreferredAllScanned == NonPreferred \subseteq DOMAIN Cells

\* The decision find_better_wifi takes when the network it returned has
\* become the active one and nothing else has changed.
NextDecision ==
    FindBetterWifi(better_wifi.value, scanned_wifi, preferred_wlans,
                   non_preferred_wlans, signal_quality_delta_threshold)

(***************************************************************************)
(* Properties.                                                             *)
(***************************************************************************)

\* C1 (tier precedence): when the scan is non-empty and contains the active
\* network and some network of the preferred list is in the scan with a
\* quality at or above the floor, a returned decision is never a network of
\* the non-preferred tier.
TierPrecedence ==
    (/\ Called
     /\ ActiveScanned
     /\ \E w \in Preferred : InRange(w)
     /\ better_wifi.kind = "return")
    => Tier(better_wifi.value) # "non_preferred"

\* The case of C1 with the active network non-preferred and the only
\* acceptable preferred network exactly at the floor.
TierPrecedenceWitness ==
    /\ pc = "done"
    /\ ActiveScanned
    /\ Preferred \cap NonPreferred = {}
    /\ active_wifi \in NonPreferred
    /\ \E w \in Preferred : InRange(w)
    /\ \A w \in Preferred : InRange(w) => Cells[w] = signal_quality_lower_bound
    /\ better_wifi.kind = "return"
    /\ better_wifi.value \in Preferred

SwitchToBetterPreferred ==
    (/\ Called
     /\ ActiveScanned
     /\ active_wifi \in Preferred \ NonPreferred
     /\ NonPreferredAllScanned
     /\ Cells[active_wifi] >= signal_quality_lower_bound
     /\ \E w \in Preferred \ {active_wifi} :
           /\ InRange(w)
           /\ Cells[w] > Cells[active_wifi] + signal_quality_delta_threshold)
    => /\ better_wifi.kind = "return"
       /\ better_wifi.value \in Preferred \ {active_wifi}

\* C4 (margin waived below the floor), as claimed: the active network is
\* preferred and below the floor and another preferred network is in range;
\* then find_better_wifi returns a preferred network other than the active
\* one.
MarginWaivedBelowFloor ==
    (/\ Called
     /\ ActiveScanned
     /\ active_wifi \in Preferred \ NonPreferred
     /\ Cells[active_wifi] < signal_quality_lower_bound
     /\ \E w \in Preferred \ {active_wifi} : InRange(w))
    => /\ better_wifi.kind = "return"
       /\ better_wifi.value \in Preferred \ {active_wifi}

\* C5 (never upgrade to a weak network), as claimed: a returned network
\* other than the active one is in the scan with a quality at or above the
\* floor configured on the command line.
NeverBelowConfiguredFloor ==
    (/\ Called
     /\ better_wifi.kind = "return"
     /\ better_wifi.value # active_wifi)
    => /\ better_wifi.value \in DOMAIN Cells
       /\ Cells[better_wifi.value] >= signal_quality_threshold

\* C6 (no flapping under a fixed scan): when find_better_wifi has returned a
\* network other than the active one, the invocation that has that network
\* as its active one, with the scan, the lists and the thresholds unchanged,
\* does not return a different network: it neither goes back nor moves on.
NoFlapping ==
    (/\ Called
     /\ better_wifi.kind = "return"
     /\ better_wifi.value # active_wifi
     /\ NextDecision.kind = "return")
    => NextDecision.value = better_wifi.value

\* The case of C6: a switch to a network whose quality equals the floor,
\* and the next invocation stays on it.
NoFlappingWitness ==
    /\ pc = "done"
    /\ better_wifi.kind = "return"
    /\ better_wifi.value # active_wifi
    /\ active_wifi \in DOMAIN Cells
    /\ Cells[active_wifi] > Cells[better_wifi.value]
    /\ Cells[better_wifi.value] = signal_quality_lower_bound
    /\ NextDecision = Returned(better_wifi.value)

\* C7 (fallback to non-preferred), as claimed: no network of the preferred
\* list is in range and some network of the non-preferred list other than
\* the active one is; then the non-preferred network of highest quality
\* among those in range is returned.
FallbackToNonPreferred ==
    (/\ Called
     /\ ActiveScanned
     /\ Preferred \cap NonPreferred = {}
     /\ NonPreferredAllScanned
     /\ \A w \in Preferred : ~InRange(w)
     /\ \E w \in NonPreferred \ {active_wifi} : InRange(w))
    => /\ better_wifi.kind = "return"
       /\ better_wifi.value \in NonPreferred
       /\ InRange(better_wifi.value)
       /\ \A w \in NonPreferred :
             InRange(w) => Cells[w] <= Cells[better_wifi.value]

\* C8 (missing active network is fatal): with a non-empty scan that does
\* not contain the active network, find_better_wifi returns no decision,
\* main() is left by the error and activate_wifi is not called.
MissingActiveIsFatal ==
    (/\ Called
     /\ ScanNonEmpty
     /\ active_wifi \notin DOMAIN Cells)
    => /\ better_wifi.kind \in {"SystemExit", "TypeError"}
       /\ pc = "aborted"
       /\ activated = None

\* The case of C8 with a named active network that the scan did not see.
MissingActiveIsFatalWitness ==
    /\ pc = "aborted"
    /\ Called
    /\ ScanNonEmpty
    /\ active_wifi \in Wlans
    /\ active_wifi \notin DOMAIN Cells
    /\ ~dry_run

\* C9 (empty active identifier is fatal), as claimed: with no active
\* network, find_better_wifi fails and returns no decision, whatever the
\* scan.
EmptyActiveIsFatal ==
    (/\ Called
     /\ active_wifi \in {None, ""})
    => better_wifi.kind = "SystemExit"

\* C10 (empty scan is a no-op): with an empty or absent scan,
\* find_better_wifi returns the active network without an error and main()
\* activates nothing.
EmptyScanIsNoOp ==
    (/\ Called
     /\ scanned_wifi.none \/ DOMAIN Cells = {})
    => /\ better_wifi = Returned(active_wifi)
       /\ pc = "done"
       /\ activated = None

\* The case of C10 with an empty dictionary and the active network on both
\* lists.
EmptyScanIsNoOpWitness ==
    /\ pc = "done"
    /\ ~scanned_wifi.none
    /\ DOMAIN Cells = {}
    /\ active_wifi \in Preferred \cap NonPreferred
    /\ ~dry_run
    /\ better_wifi = Returned(active_wifi)

\* C11 (lock suspends periodic runs): a run that started with --lockfile F
\* and without --unlock while the lock file existed, and the run that
\* created the lock itself, performs no scan, no call of find_better_wifi
\* and no activation, in every interleaving, for as long as no --unlock run
\* has removed the file.
LockSuspendsRuns ==
    \A r \in Runs :
        suspended[r] =>
            /\ runs[r].pc \notin {"scan", "find", "activated", "finished"}
            /\ runs[r].scanned_wifi = IdleRun.scanned_wifi
            /\ runs[r].better_wifi = NotCalled

\* The case of C11: a later run without --lock or --unlock has been turned
\* away by the lock while a run that had passed the check before the lock
\* was created has activated a network.
LockSuspendsRunsWitness ==
    \E r, q \in Runs :
        /\ r # q
        /\ suspended[r]
        /\ ~runs[r].lock
        /\ ~runs[r].dry_run
        /\ runs[r].pc = "locked_out"
        /\ LockPath \in lock_files
        /\ runs[q].pc = "activated"

\* The guards of find_better_wifi (lines 436-447) have passed.
GuardsPass ==
    /\ Called
    /\ ActiveScanned
    /\ active_wifi \notin Preferred \cap NonPreferred

\* The locals of find_better_wifi after the loop over preferred_wlans.
FirstPass ==
    PreferredLoop([sufficiently_better |-> active_wifi,
                   better_quality |-> Cells[active_wifi],
                   fudge |-> <<>>,
                   raised |-> ""],
                  1, preferred_wlans, active_wifi, Cells,
                  active_wifi \in Preferred,
                  Cells[active_wifi] < signal_quality_lower_bound,
                  signal_quality_delta_threshold)

\* The loop over non_preferred_wlans is entered: the first loop raised
\* nothing and the return of lines 481-483 was not taken.
NonPreferredPassReached ==
    /\ GuardsPass
    /\ FirstPass.raised = ""
    /\ ~(active_wifi \in Preferred
         /\ FirstPass.better_quality > signal_quality_lower_bound)

\* C12 (absent non-preferred candidates are skipped), as claimed: when the
\* non-preferred pass is reached and a name of the non-preferred list is
\* not in the scan, find_better_wifi still returns a decision.
AbsentNonPreferredSkipped ==
    (/\ NonPreferredPassReached
     /\ Preferred \cap NonPreferred = {}
     /\ \E w \in NonPreferred : w \notin DOMAIN Cells)
    => better_wifi.kind = "return"

\* C13 (choice among preferred candidates from a non-preferred active
\* network), as claimed: with the active network not preferred, the result
\* of the preferred pass is never a preferred network of lower quality than
\* an in-range preferred network that precedes it in the list.
PreferredPassKeepsBetterEarlier ==
    (/\ GuardsPass
     /\ active_wifi \notin Preferred
     /\ better_wifi.kind = "return")
    => \A i, j \in 1..Len(preferred_wlans) :
          (/\ i < j
           /\ InRange(preferred_wlans[i])
           /\ InRange(preferred_wlans[j])
           /\ FirstPass.sufficiently_better = preferred_wlans[j])
          => Cells[preferred_wlans[j]] >= Cells[preferred_wlans[i]]

====
